---- MODULE Spec2Model ----
(***************************************************************************)
(* Model of the asynchronous I2C master driver of the atsamd HAL           *)
(* (hal/src/sercom/i2c/async_api.rs): the interrupt handler, the           *)
(* wait_flags suspension primitive, the byte-wise and the DMA transaction  *)
(* engines, the embedded-hal-async adaptor and the session lifecycle.      *)
(*                                                                         *)
(* One cooperative task drives one SERCOM instance.  The task's steps are  *)
(* interleaved with the interrupt handler and with the hardware latching   *)
(* status flags.  Every bus command the driver issues is appended to       *)
(* `trace`, an operation-trace capture of the current API call.            *)
(***************************************************************************)
EXTENDS Integers, Sequences, FiniteSets

\* ------------------------------------------------------------------ bounds
MaxLen == 2      \* longest buffer handed to a byte-wise read or write
MaxOps == 2      \* longest operation list handed to transaction

\* The largest transfer length the DMA engine accepts (assert!(len <= 255)).
DmaMaxLen == 255

\* The driver never inspects a data byte or an address, it only passes them
\* on: two bytes tell apart the positions of a buffer, and one address is
\* told apart from every other value a start command could be given.
Bytes == {0, 1}
Addrs == {16}

\* Sequences over S of length 0..n.
SeqsUpTo(S, n) == UNION {[1..m -> S] : m \in 0..n}

\* ------------------------------------------------------------------ state
VARIABLES
    session,      \* "I2c" | "Entering" | "Future" | "FutureDma": who owns the handle
    nvicEnabled,  \* interrupt controller: the instance's line is enabled
    nvicPending,  \* interrupt controller: a request is pending on the line
    nvicLog,      \* controller operations of the latest into_future, in order
    intflag,      \* INTFLAG: the status flags latched by hardware
    intenset,     \* INTENSET/INTENCLR: the enabled interrupt sources
    status,       \* STATUS: the bus error bits
    busOp,        \* bus activity in flight: "idle" | "tx" | "rx"
    waker,        \* the instance's waker slot holds a waker
    woken,        \* the executor has been told to poll the task again
    pc,           \* the task's position
    call,         \* the API call in progress: [api, addr, ops]
    k,            \* index in call.ops of the sub-operation in progress
    i,            \* bytes of the sub-operation handled so far
    buffers,      \* the caller's read buffers, one per sub-operation
    flags_to_wait,\* argument of the wait_flags in progress
    ret,          \* where the wait_flags in progress returns to
    result,       \* "none" | "Ok" | an i2c::Error
    trace         \* bus commands issued by the current call

vars == <<session, nvicEnabled, nvicPending, nvicLog, intflag, intenset,
          status, busOp, waker, woken, pc, call, k, i, buffers,
          flags_to_wait, ret, result, trace>>

nvicVars == <<nvicEnabled, nvicPending, nvicLog>>
hwVars == <<intflag, intenset, status, busOp>>
wakeVars == <<waker, woken>>
callVars == <<call, k, i, buffers, result, trace>>
waitVars == <<flags_to_wait, ret>>

\* ------------------------------------------------------------------ flags
MB == "MB"
SB == "SB"
ERROR == "ERROR"

\* Flags::all()
FlagsAll == {MB, SB, ERROR}

\* Flags::from_bits_truncate: the recognized bits of a raw register value.
FromBitsTruncate(bits) == bits \cap FlagsAll

\* Flags::contains / Flags::intersects
Contains(a, b) == b \subseteq a
Intersects(a, b) == a \cap b # {}

NoCall == [api |-> "none", addr |-> 0, ops |-> <<>>]

Init ==
    /\ session = "I2c"
    /\ nvicEnabled \in BOOLEAN
    /\ nvicPending \in BOOLEAN
    /\ nvicLog = <<>>
    /\ intflag = {}
    /\ intenset = {}
    /\ status = {}
    /\ busOp = "idle"
    /\ waker = FALSE
    /\ woken = FALSE
    /\ pc = "idle"
    /\ call = NoCall
    /\ k = 0
    /\ i = 0
    /\ buffers = <<>>
    /\ flags_to_wait = {}
    /\ ret = "none"
    /\ result = "none"
    /\ trace = <<>>

\* ------------------------------------------------- interrupt controller
\* An into_future that enables the line before it clears the request.
IntoFutureSteps_EnableFirst == <<"enable", "unpend">>

\* S::Interrupt::unpend() then S::Interrupt::enable(), in program order.
IntoFutureSteps == <<"unpend", "enable">>

\* The effect of one controller operation on the instance's line.
NvicApply(op) ==
    /\ nvicEnabled' = IF op = "enable" THEN TRUE ELSE nvicEnabled
    /\ nvicPending' = IF op = "unpend" THEN FALSE ELSE nvicPending

\* The task is between two API calls.
AtRest == pc = "idle"

\* The values that do not outlive a call are cleared when the session changes hands.
ForgetCall ==
    /\ pc' = "idle"
    /\ call' = NoCall
    /\ k' = 0
    /\ i' = 0
    /\ buffers' = <<>>
    /\ result' = "none"
    /\ trace' = <<>>
    /\ flags_to_wait' = {}
    /\ ret' = "none"

\* The caller takes the result of the call that returned.
Return ==
    /\ pc = "done"
    /\ ForgetCall
    /\ UNCHANGED <<session, nvicVars, hwVars, wakeVars>>

\* I2c::into_future, first statement.
IntoFutureUnpend ==
    /\ session = "I2c"
    /\ AtRest
    /\ NvicApply(IntoFutureSteps[1])
    /\ nvicLog' = <<IntoFutureSteps[1]>>
    /\ session' = "Entering"
    /\ ForgetCall
    /\ UNCHANGED <<hwVars, wakeVars>>

\* I2c::into_future, second statement and the returned session.
IntoFutureEnable ==
    /\ session = "Entering"
    /\ NvicApply(IntoFutureSteps[2])
    /\ nvicLog' = Append(nvicLog, IntoFutureSteps[2])
    /\ session' = "Future"
    /\ UNCHANGED <<hwVars, wakeVars, waitVars, pc, callVars>>

\* What I2cFuture::free does to the interrupt controller: nothing.
FreeNvic == UNCHANGED <<nvicEnabled, nvicPending>>

\* I2cFuture::free: hand the peripheral back.
Free ==
    /\ session = "Future"
    /\ AtRest
    /\ session' = "I2c"
    /\ FreeNvic
    /\ ForgetCall
    /\ UNCHANGED <<nvicLog, hwVars, wakeVars>>

\* I2cFuture::with_dma_channel: the same peripheral, now with a DMA channel.
WithDmaChannel ==
    /\ session = "Future"
    /\ AtRest
    /\ session' = "FutureDma"
    /\ ForgetCall
    /\ UNCHANGED <<nvicVars, hwVars, wakeVars>>

\* ------------------------------------------------------------- waker slot
\* AtomicWaker::register: the slot holds the task's waker, replacing any other.
WakerRegister == waker' = TRUE /\ UNCHANGED woken

\* AtomicWaker::wake: take the waker out of the slot, if any, and wake it.
WakerWake ==
    /\ waker' = FALSE
    /\ woken' = (woken \/ waker)

\* --------------------------------------------------------------- hardware
\* The flags a bus activity can latch when it ends.
Latchable(op) == IF op = "tx" THEN {MB, ERROR} ELSE {SB, ERROR}

\* The peripheral finishes the bus activity in flight and latches its flags;
\* a bus error sets INTFLAG.ERROR together with STATUS.BUSERR.
HwLatch ==
    /\ busOp # "idle"
    /\ \E F \in (SUBSET Latchable(busOp)) \ {{}} :
        /\ intflag' = intflag \cup F
        /\ status' = IF ERROR \in F THEN status \cup {"BUSERR"} ELSE status
    /\ busOp' = "idle"
    /\ UNCHANGED <<session, nvicVars, intenset, wakeVars, pc, callVars, waitVars>>

\* While the line is masked the controller can latch a request, which is
\* stale by the time the line is enabled.
HwStalePend ==
    /\ ~nvicEnabled
    /\ ~nvicPending
    /\ nvicPending' = TRUE
    /\ UNCHANGED <<session, nvicEnabled, nvicLog, hwVars, wakeVars, pc,
                   callVars, waitVars>>

\* The instance's level-sensitive interrupt request.
IrqAsserted == Intersects(intenset, intflag)

\* ------------------------------------------------------ interrupt handler
\* The guard with receiver and argument swapped: every source must be pending.
IsrTakes_All(flags_pending) == Contains(flags_pending, FlagsAll)

\* if flags_to_check.contains(flags_pending)
IsrTakes(flags_pending) == Contains(FlagsAll, flags_pending)

\* A handler that masks every source, pending or not.
IsrIntenclr_All(flags_pending) == FlagsAll

\* A handler that masks nothing.
IsrIntenclr_None(flags_pending) == {}

\* The bits the handler writes to INTENCLR.
IsrIntenclr(flags_pending) == flags_pending

\* A handler that masks the pending flags and forgets to wake the task.
OnInterruptBody_NoWake(flags_pending) ==
    IF IsrTakes(flags_pending)
    THEN /\ intenset' = intenset \ IsrIntenclr(flags_pending)
         /\ UNCHANGED wakeVars
    ELSE UNCHANGED <<intenset, wakeVars>>

\* A handler that flips the enable bits of the pending flags.
OnInterruptBody_Toggle(flags_pending) ==
    IF IsrTakes(flags_pending)
    THEN /\ intenset' = (intenset \ IsrIntenclr(flags_pending))
                            \cup (IsrIntenclr(flags_pending) \ intenset)
         /\ WakerWake
    ELSE UNCHANGED <<intenset, wakeVars>>

\* The body of the handler, given the flags it read from INTFLAG.
OnInterruptBody(flags_pending) ==
    IF IsrTakes(flags_pending)
    THEN /\ intenset' = intenset \ IsrIntenclr(flags_pending)
         /\ WakerWake
    ELSE UNCHANGED <<intenset, wakeVars>>

\* InterruptHandler::on_interrupt.  It runs to completion before the task
\* continues.
Handler ==
    /\ nvicPending' = FALSE
    /\ OnInterruptBody(FromBitsTruncate(intflag))
    /\ UNCHANGED <<session, nvicEnabled, nvicLog, intflag, status, busOp, pc,
                   callVars, waitVars>>

\* The handler is dispatched because the line is enabled and a request is
\* pending or asserted.
OnInterrupt ==
    /\ nvicEnabled
    /\ nvicPending \/ IrqAsserted
    /\ Handler

\* The handler is dispatched although this instance requests nothing: a
\* shared line, or a second firing for one event.
OnInterruptSpurious ==
    /\ nvicEnabled
    /\ ~(nvicPending \/ IrqAsserted)
    /\ Handler

\* ------------------------------------------------------------- wait_flags
\* A slow path that registers the waker before it disables the sources.
WaitFlagsOrder_RegisterFirst ==
    <<"wf_register", "wf_disable", "wf_enable", "wf_recheck">>

\* The statements of a poll that is not ready at once, in program order.
WaitFlagsOrder == <<"wf_disable", "wf_register", "wf_enable", "wf_recheck">>

\* The statement after statement p of the slow path.
WfNext(p) ==
    LET n == CHOOSE j \in 1..Len(WaitFlagsOrder) : WaitFlagsOrder[j] = p
    IN IF n < Len(WaitFlagsOrder) THEN WaitFlagsOrder[n + 1] ELSE "wf_pending"

\* registers.read_flags()
ReadFlags == FromBitsTruncate(intflag)

\* The caller awaits wait_flags(flags) and continues at `to`.
CallWaitFlags(flags, to) ==
    /\ flags_to_wait' = flags
    /\ ret' = to
    /\ pc' = "wf_poll"

\* A poll without the first read of the flags: it always takes the slow path.
WaitFlagsPoll_NoFastPath ==
    /\ pc = "wf_poll"
    /\ pc' = WaitFlagsOrder[1]
    /\ UNCHANGED <<session, nvicVars, hwVars, wakeVars, callVars, waitVars>>

\* First statement of a poll: ready at once if an awaited flag is pending.
WaitFlagsPoll ==
    /\ pc = "wf_poll"
    /\ pc' = IF Intersects(flags_to_wait, ReadFlags) THEN ret
             ELSE WaitFlagsOrder[1]
    /\ UNCHANGED <<session, nvicVars, hwVars, wakeVars, callVars, waitVars>>

\* self.i2c.disable_interrupts(Flags::all())
WaitFlagsDisable ==
    /\ pc = "wf_disable"
    /\ intenset' = intenset \ FlagsAll
    /\ pc' = WfNext("wf_disable")
    /\ UNCHANGED <<session, nvicVars, intflag, status, busOp, wakeVars,
                   callVars, waitVars>>

\* S::rx_waker().register(cx.waker())
WaitFlagsRegister ==
    /\ pc = "wf_register"
    /\ WakerRegister
    /\ pc' = WfNext("wf_register")
    /\ UNCHANGED <<session, nvicVars, hwVars, callVars, waitVars>>

\* wait_flags enabling every source instead of the awaited ones.
EnabledFor_All(flags) == FlagsAll

\* wait_flags enabling no source.
EnabledFor_None(flags) == {}

\* The sources wait_flags enables for an interest set.
EnabledFor(flags) == flags

\* self.i2c.enable_interrupts(flags_to_wait)
WaitFlagsEnable ==
    /\ pc = "wf_enable"
    /\ intenset' = intenset \cup EnabledFor(flags_to_wait)
    /\ pc' = WfNext("wf_enable")
    /\ UNCHANGED <<session, nvicVars, intflag, status, busOp, wakeVars,
                   callVars, waitVars>>

\* A slow path that returns Poll::Ready without the second read.
WaitFlagsRecheck_Ready ==
    /\ pc = "wf_recheck"
    /\ pc' = ret
    /\ UNCHANGED <<session, nvicVars, hwVars, wakeVars, callVars, waitVars>>

\* The second read of the flags: Poll::Ready or Poll::Pending.
WaitFlagsRecheck ==
    /\ pc = "wf_recheck"
    /\ pc' = IF ~Intersects(flags_to_wait, ReadFlags) THEN WfNext("wf_recheck")
             ELSE ret
    /\ UNCHANGED <<session, nvicVars, hwVars, wakeVars, callVars, waitVars>>

\* The executor polls the task again after its waker was woken.
ExecutorPoll ==
    /\ pc = "wf_pending"
    /\ woken
    /\ woken' = FALSE
    /\ pc' = "wf_poll"
    /\ UNCHANGED <<session, nvicVars, hwVars, waker, callVars, waitVars>>

\* The task is inside wait_flags.
InWaitFlags ==
    pc \in {"wf_poll", "wf_disable", "wf_register", "wf_enable", "wf_recheck",
            "wf_pending"}

\* ------------------------------------------------------------ API calls
\* Operation::Write(bytes) and Operation::Read(buffer) as the driver sees them.
WriteOp(bytes) == [kind |-> "Write", bytes |-> bytes, len |-> Len(bytes)]
ReadOp(len) == [kind |-> "Read", bytes |-> <<>>, len |-> len]

\* A DMA write only looks at the length of its buffer.
DmaWriteOp(len) == [kind |-> "Write", bytes |-> <<>>, len |-> len]

\* A write_read that reads before it writes.
WriteReadOps_ReadFirst(w, r) == <<r, w>>

\* The sub-operations write_read awaits, in program order.
WriteReadOps(w, r) == <<w, r>>

\* The sub-operations transaction awaits for an operation list, in program order.
TransactionOps(operations) == operations

\* One entry of the operation trace, made by sub-operation k.
Ev(op, addr, arg, flags) ==
    [k |-> k, op |-> op, addr |-> addr, arg |-> arg, flags |-> flags]

Emit(e) == trace' = Append(trace, e)

\* How the trace records the outcome of a call that returns a Result.
Passed == 0
Failed == 1

\* Where a sub-operation starts: the DMA engine on a session that holds a
\* DMA channel, the byte-wise engine otherwise.
Entry(op) ==
    IF session = "FutureDma"
    THEN (IF op.kind = "Write" THEN "dw_init" ELSE "dr_init")
    ELSE (IF op.kind = "Write" THEN "w_start" ELSE "r_start")

\* A read buffer before anything is stored in it.
Unwritten == -1
FreshBuffers(ops) ==
    [j \in 1..Len(ops) |->
        IF ops[j].kind = "Read" /\ session = "Future"
        THEN [x \in 1..ops[j].len |-> Unwritten]
        ELSE <<>>]

\* The caller awaits api(addr, ...), which awaits the sub-operations ops.
Begin(api, addr, ops) ==
    /\ AtRest
    /\ call' = [api |-> api, addr |-> addr, ops |-> ops]
    /\ buffers' = FreshBuffers(ops)
    /\ trace' = <<>>
    /\ i' = 0
    /\ IF ops = <<>>
       THEN k' = 0 /\ pc' = "done" /\ result' = "Ok"
       ELSE k' = 1 /\ pc' = Entry(ops[1]) /\ result' = "none"
    /\ UNCHANGED <<session, nvicVars, hwVars, wakeVars, waitVars>>

\* The sub-operation in progress.
Cur == call.ops[k]

\* A sub-operation returned Ok(()): the caller awaits the next one, or
\* returns Ok(()) itself after the last.
ReturnOk ==
    IF k < Len(call.ops)
    THEN /\ k' = k + 1
         /\ i' = 0
         /\ pc' = Entry(call.ops[k + 1])
         /\ result' = result
    ELSE /\ pc' = "done"
         /\ result' = "Ok"
         /\ UNCHANGED <<k, i>>

\* A caller that drops the error of a sub-operation and goes on.
ReturnErr_Dropped(e) == ReturnOk

\* A sub-operation returned Err(e): `?` returns it from the caller at once.
ReturnErr(e) ==
    /\ pc' = "done"
    /\ result' = e
    /\ UNCHANGED <<k, i>>

\* The process aborts (expect, assert!).
Panic ==
    /\ pc' = "panicked"
    /\ UNCHANGED <<k, i, result>>

WriteBufs == SeqsUpTo(Bytes, MaxLen)
ReadLens == 0..MaxLen

\* The operations of a transaction: writes and reads of one byte.  What a
\* longer or an empty buffer changes is reached through write and read.
SubOps == {WriteOp(<<b>>) : b \in Bytes} \cup {ReadOp(1)}
OpLists == SeqsUpTo(SubOps, MaxOps)

\* I2cFuture::write(addr, bytes), byte-wise.
CallWrite ==
    /\ session = "Future"
    /\ \E addr \in Addrs, bytes \in WriteBufs :
        Begin("write", addr, <<WriteOp(bytes)>>)

\* I2cFuture::read(addr, buffer), byte-wise.
CallRead ==
    /\ session = "Future"
    /\ \E addr \in Addrs, n \in ReadLens :
        Begin("read", addr, <<ReadOp(n)>>)

\* I2cFuture::write_read(addr, write_buf, read_buf), byte-wise.
CallWriteRead ==
    /\ session = "Future"
    /\ \E addr \in Addrs, bytes \in WriteBufs, n \in ReadLens :
        Begin("write_read", addr, WriteReadOps(WriteOp(bytes), ReadOp(n)))

\* I2cTrait::transaction(address, operations) on a session without DMA.
CallTransaction ==
    /\ session = "Future"
    /\ \E addr \in Addrs, operations \in OpLists :
        Begin("transaction", addr, TransactionOps(operations))

\* ------------------------------------------------------ register layer
\* Writing ADDR starts a transfer and clears the flags and the bus error
\* bits of the previous one.
StartTransfer(dir) ==
    /\ intflag' = {}
    /\ status' = {}
    /\ busOp' = dir
    /\ UNCHANGED intenset

\* Status::check_bus_error
CheckBusError(st) == IF "BUSERR" \in st THEN "BusError" ELSE "Ok"

\* ------------------------------------------------------- byte-wise write
\* registers.start_write(addr)?
WriteStart ==
    /\ pc = "w_start"
    /\ \E accepted \in BOOLEAN :
        IF accepted
        THEN /\ StartTransfer("tx")
             /\ Emit(Ev("start_write", call.addr, Passed, {}))
             /\ pc' = "w_loop"
             /\ UNCHANGED <<k, i, result>>
        ELSE /\ Emit(Ev("start_write", call.addr, Failed, {}))
             /\ ReturnErr("Busy")
             /\ UNCHANGED hwVars
    /\ UNCHANGED <<session, nvicVars, wakeVars, call, buffers, waitVars>>

\* The flags write waits for before it hands a byte to the data register.
WriteWaitsFor == {MB, ERROR}

\* for b in bytes { self.wait_flags(Flags::MB | Flags::ERROR).await; ...
WriteWait ==
    /\ pc = "w_loop"
    /\ i < Cur.len
    /\ CallWaitFlags(WriteWaitsFor, "w_check")
    /\ Emit(Ev("wait_flags", 0, 0, WriteWaitsFor))
    /\ UNCHANGED <<session, nvicVars, hwVars, wakeVars, call, k, i, buffers,
                   result>>

\* A write that reads the status and goes on whatever it says.
WriteChecked_Ignored(outcome) == "Ok"

\* What write does with the outcome of check_bus_error: `?` returns an error.
WriteChecked(outcome) == outcome

\* self.i2c.read_status().check_bus_error()?
WriteCheck ==
    /\ pc = "w_check"
    /\ LET checked == CheckBusError(status)
           outcome == WriteChecked(checked)
       IN
        /\ Emit(Ev("check_bus_error", 0,
                   IF checked = "Ok" THEN Passed ELSE Failed, {}))
        /\ IF outcome = "Ok"
           THEN pc' = "w_write" /\ UNCHANGED <<k, i, result>>
           ELSE ReturnErr(outcome)
    /\ UNCHANGED <<session, nvicVars, hwVars, wakeVars, call, buffers, waitVars>>

\* A loop that walks the buffer from its end.
WriteByte_Reversed(bytes, n) == bytes[Len(bytes) + 1 - n]

\* The byte write hands to the data register on iteration n of its loop.
WriteByte(bytes, n) == bytes[n]

\* registers.write_one(*b): writing DATA clears MB and clocks the byte out.
WriteOne ==
    /\ pc = "w_write"
    /\ Emit(Ev("write_one", 0, WriteByte(Cur.bytes, i + 1), {}))
    /\ intflag' = intflag \ {MB}
    /\ busOp' = "tx"
    /\ i' = i + 1
    /\ pc' = "w_loop"
    /\ UNCHANGED <<session, nvicVars, intenset, status, wakeVars, call, k,
                   buffers, result, waitVars>>

\* self.i2c.cmd_stop(); Ok(())
WriteStop ==
    /\ pc = "w_loop"
    /\ i = Cur.len
    /\ Emit(Ev("cmd_stop", 0, 0, {}))
    /\ ReturnOk
    /\ UNCHANGED <<session, nvicVars, hwVars, wakeVars, call, buffers, waitVars>>

\* -------------------------------------------------------- byte-wise read
\* registers.start_read(addr)?
ReadStart ==
    /\ pc = "r_start"
    /\ \E accepted \in BOOLEAN :
        IF accepted
        THEN /\ StartTransfer("rx")
             /\ Emit(Ev("start_read", call.addr, Passed, {}))
             /\ pc' = "r_wait"
             /\ UNCHANGED <<k, i, result>>
        ELSE /\ Emit(Ev("start_read", call.addr, Failed, {}))
             /\ ReturnErr("Busy")
             /\ UNCHANGED hwVars
    /\ UNCHANGED <<session, nvicVars, wakeVars, call, buffers, waitVars>>

\* The flags read_one waits for before it reads the data register.
ReadWaitsFor == {SB, ERROR}

\* read_one: self.wait_flags(Flags::SB | Flags::ERROR).await
ReadOneWait ==
    /\ pc = "r_wait"
    /\ CallWaitFlags(ReadWaitsFor, "r_data")
    /\ Emit(Ev("wait_flags", 0, 0, ReadWaitsFor))
    /\ UNCHANGED <<session, nvicVars, hwVars, wakeVars, call, k, i, buffers,
                   result>>

\* The slot of the buffer that receives the n-th byte read.
ReadDest(n) == n

\* read_one: registers.read_one(), then the store through iter.next().
\* The value is evaluated before the destination: with an empty buffer the
\* expect fails only after the data register was read.
ReadOneData ==
    /\ pc = "r_data"
    /\ \E v \in Bytes :
        /\ Emit(Ev("read_one", 0, v, {}))
        /\ IF i < Cur.len
           THEN /\ buffers' = [buffers EXCEPT ![k][ReadDest(i + 1)] = v]
                /\ i' = i + 1
                /\ pc' = "r_loop"
                /\ UNCHANGED <<k, result>>
           ELSE /\ Panic
                /\ UNCHANGED buffers
    /\ UNCHANGED <<session, nvicVars, hwVars, wakeVars, call, waitVars>>

\* A loop that goes on to the next byte without the ACK command.
ReadAck_NoCommand ==
    /\ pc = "r_loop"
    /\ i < Cur.len
    /\ pc' = "r_wait"
    /\ UNCHANGED <<session, nvicVars, hwVars, wakeVars, callVars, waitVars>>

\* Some(dest) => registers.cmd_read(): acknowledge the byte just read, which
\* clears SB and lets the slave send the next one.
ReadAck ==
    /\ pc = "r_loop"
    /\ i < Cur.len
    /\ Emit(Ev("cmd_read", 0, 0, {}))
    /\ intflag' = intflag \ {SB}
    /\ busOp' = "rx"
    /\ pc' = "r_wait"
    /\ UNCHANGED <<session, nvicVars, intenset, status, wakeVars, call, k, i,
                   buffers, result, waitVars>>

\* None => break; ctrlb.modify(|_, w| w.ackact().set_bit()); Ok(())
ReadNack ==
    /\ pc = "r_loop"
    /\ i = Cur.len
    /\ Emit(Ev("set_ackact", 0, 0, {}))
    /\ ReturnOk
    /\ UNCHANGED <<session, nvicVars, hwVars, wakeVars, call, buffers, waitVars>>

\* ------------------------------------------------------------ DMA engine
\* An assertion that forgets the upper end of the range.
DmaLenOk_NoUpperEnd(len) == len > 0

\* assert!(len > 0 && len <= 255)
DmaLenOk(len) == len > 0 /\ len <= DmaMaxLen

\* len as u8
AsU8(n) == n % 256

\* The lengths around both ends of the accepted range.
DmaLens == {0, 1, DmaMaxLen, DmaMaxLen + 1}

\* The operations of a DMA transaction: writes and reads of one byte.
DmaSubOps == {DmaWriteOp(1), ReadOp(1)}
DmaOpLists == SeqsUpTo(DmaSubOps, MaxOps)

\* I2cFuture::write(address, bytes) using DMA.
CallDmaWrite ==
    /\ session = "FutureDma"
    /\ \E addr \in Addrs, n \in DmaLens :
        Begin("write", addr, <<DmaWriteOp(n)>>)

\* I2cFuture::read(address, buffer) using DMA.
CallDmaRead ==
    /\ session = "FutureDma"
    /\ \E addr \in Addrs, n \in DmaLens :
        Begin("read", addr, <<ReadOp(n)>>)

\* I2cFuture::write_read(addr, write_buf, read_buf) using DMA.
CallDmaWriteRead ==
    /\ session = "FutureDma"
    /\ \E addr \in Addrs, w \in DmaLens, r \in DmaLens :
        Begin("write_read", addr, WriteReadOps(DmaWriteOp(w), ReadOp(r)))

\* I2cTrait::transaction(address, operations) on a session with DMA.
CallDmaTransaction ==
    /\ session = "FutureDma"
    /\ \E addr \in Addrs, operations \in DmaOpLists :
        Begin("transaction", addr, TransactionOps(operations))

\* self.i2c.init_dma_transfer()? of either direction.
DmaInit(at, next) ==
    /\ pc = at
    /\ \E accepted \in BOOLEAN :
        IF accepted
        THEN /\ Emit(Ev("init_dma_transfer", 0, Passed, {}))
             /\ pc' = next
             /\ UNCHANGED <<k, i, result>>
        ELSE /\ Emit(Ev("init_dma_transfer", 0, Failed, {}))
             /\ ReturnErr("Busy")
    /\ UNCHANGED <<session, nvicVars, hwVars, wakeVars, call, buffers, waitVars>>

\* The assertion on the length, then start_dma_write / start_dma_read with
\* the length as the 8-bit byte count.
DmaStart(at, cmd, next) ==
    /\ pc = at
    /\ IF DmaLenOk(Cur.len)
       THEN /\ Emit(Ev(cmd, call.addr, AsU8(Cur.len), {}))
            /\ pc' = next
            /\ UNCHANGED <<k, i, result>>
       ELSE /\ Panic
            /\ UNCHANGED trace
    /\ UNCHANGED <<session, nvicVars, hwVars, wakeVars, call, buffers, waitVars>>

\* write_dma / read_dma awaited to completion; a failure of the DMA engine
\* is wrapped in Error::Dma.
DmaXfer(at, cmd) ==
    /\ pc = at
    /\ \E completed \in BOOLEAN :
        IF completed
        THEN Emit(Ev(cmd, 0, Passed, {})) /\ ReturnOk
        ELSE Emit(Ev(cmd, 0, Failed, {})) /\ ReturnErr("Dma")
    /\ UNCHANGED <<session, nvicVars, hwVars, wakeVars, call, buffers, waitVars>>

DmaWriteInit == DmaInit("dw_init", "dw_start")
DmaWriteStart == DmaStart("dw_start", "start_dma_write", "dw_xfer")
DmaWriteXfer == DmaXfer("dw_xfer", "write_dma")
DmaReadInit == DmaInit("dr_init", "dr_start")
DmaReadStart == DmaStart("dr_start", "start_dma_read", "dr_xfer")
DmaReadXfer == DmaXfer("dr_xfer", "read_dma")

\* ---------------------------------------------------------- specification
\* The steps of the task inside an API call.
TaskStep ==
    \/ WaitFlagsPoll
    \/ WaitFlagsDisable
    \/ WaitFlagsRegister
    \/ WaitFlagsEnable
    \/ WaitFlagsRecheck
    \/ ExecutorPoll
    \/ WriteStart
    \/ WriteWait
    \/ WriteCheck
    \/ WriteOne
    \/ WriteStop
    \/ ReadStart
    \/ ReadOneWait
    \/ ReadOneData
    \/ ReadAck
    \/ ReadNack
    \/ DmaWriteInit
    \/ DmaWriteStart
    \/ DmaWriteXfer
    \/ DmaReadInit
    \/ DmaReadStart
    \/ DmaReadXfer

\* What the caller of the driver does between calls.
Caller ==
    \/ Return
    \/ IntoFutureUnpend
    \/ IntoFutureEnable
    \/ Free
    \/ WithDmaChannel
    \/ CallWrite
    \/ CallRead
    \/ CallWriteRead
    \/ CallTransaction
    \/ CallDmaWrite
    \/ CallDmaRead
    \/ CallDmaWriteRead
    \/ CallDmaTransaction

Next ==
    \/ Caller
    \/ TaskStep
    \/ OnInterrupt
    \/ OnInterruptSpurious
    \/ HwLatch
    \/ HwStalePend

Spec == Init /\ [][Next]_vars

\* The interrupt controller dispatches the handler while the line is enabled
\* and a request is pending or asserted; the executor polls a woken task and
\* a polled task runs to its next suspension.
LiveSpec == Spec /\ WF_vars(OnInterrupt) /\ WF_vars(TaskStep)

\* ------------------------------------------------------------------ claims
\* C1: no missed wakeup.  Whenever the task is inside wait_flags(interest)
\* and an interest flag is pending, whichever statement of the poll the task
\* is at and whether the flag was latched before the poll, between two of
\* its statements or after the task suspended, wait_flags eventually returns.
C1_NoMissedWakeup ==
    (InWaitFlags /\ Intersects(flags_to_wait, intflag)) ~> ~InWaitFlags

\* The flag was latched after the task suspended: only the handler's wake
\* can resume it.
C1_Witness ==
    /\ pc = "wf_pending"
    /\ Intersects(flags_to_wait, intflag)
    /\ waker
    /\ ~woken

\* ------------------------------------------------ reading the trace
\* The call in progress, or the one that just returned, is a byte-wise one.
ByteWise(api) == session = "Future" /\ call.api = api
Returned == pc = "done"

\* The positions of the trace whose entry is a call of `op`.
At(op) == {j \in 1..Len(trace) : trace[j].op = op}

\* The calls that return a Result, and those of them that returned an error.
Fallible ==
    {"start_write", "start_read", "check_bus_error", "init_dma_transfer",
     "write_dma", "read_dma"}
FailedAt == {j \in 1..Len(trace) : trace[j].op \in Fallible /\ trace[j].arg = Failed}

\* The bus commands and data register accesses of the trace, without the
\* waits and the status checks between them.
IsCommand(e) == e.op \notin {"wait_flags", "check_bus_error"}
Commands == SelectSeq(trace, IsCommand)
OpArg(e) == <<e.op, e.arg>>
CommandList == [j \in 1..Len(Commands) |-> OpArg(Commands[j])]

\* C2 (as the specification states it): a byte-wise read checks the error
\* condition after each wait, before it reads the data register, and returns
\* Ok only if the error flag was set at none of its waits.  An error flag
\* latched during a read stays set until the next start command.
C2_ReadOkOnlyWithoutError ==
    (ByteWise("read") /\ Returned /\ result = "Ok") => ERROR \notin intflag

\* C3 (as the specification states it): a byte-wise write returns Ok only
\* after every byte it wrote to the data register, the last one included,
\* was followed by a wait and a bus error check that passed.
C3_WriteOkOnlyAfterEveryByteChecked ==
    (ByteWise("write") /\ Returned /\ result = "Ok") =>
        \A j \in At("write_one") :
            \E m \in At("check_bus_error") : m > j /\ trace[m].arg = Passed

\* The commands of a write of `bytes` that meets no error.
WriteCommands(bytes) ==
    <<<<"start_write", Passed>>>>
    \o [j \in 1..Len(bytes) |-> <<"write_one", bytes[j]>>]
    \o <<<<"cmd_stop", 0>>>>

\* C4: a byte-wise write of a non-empty B, with the start accepted and no
\* error flag raised, returns Ok after exactly: one start-write to the
\* address, the bytes of B written to the data register in the order of B,
\* one STOP.
C4_WriteSendsBytesInOrder ==
    (/\ ByteWise("write") /\ Returned
     /\ Cur.len >= 1
     /\ FailedAt = {}
     /\ ERROR \notin intflag) =>
        /\ result = "Ok"
        /\ CommandList = WriteCommands(Cur.bytes)
        /\ \A j \in At("start_write") : trace[j].addr = call.addr

C4_Witness ==
    /\ ByteWise("write") /\ Returned
    /\ result = "Ok"
    /\ Cur.bytes = <<0, 1>>
    /\ ERROR \notin intflag

\* The operations of a read of n bytes: the start, the first data read, then
\* an ACK command before each further data read, then the NACK arrangement.
ReadOps(n) ==
    [p \in 1..(2 * n + 1) |->
        IF p = 1 THEN "start_read"
        ELSE IF p = 2 * n + 1 THEN "set_ackact"
        ELSE IF p % 2 = 0 THEN "read_one" ELSE "cmd_read"]

\* C5: a byte-wise read that returns Ok was given N >= 1 bytes of buffer and
\* issued exactly N-1 ACK commands, each between two consecutive data reads
\* and none before the first; the N bytes read are in the buffer in the
\* order they were read; setting the NACK action is its last operation.
C5_ReadAcksBetweenBytes ==
    (ByteWise("read") /\ Returned /\ result = "Ok") =>
        /\ Cur.len >= 1
        /\ [j \in 1..Len(Commands) |-> Commands[j].op] = ReadOps(Cur.len)
        /\ Cardinality(At("cmd_read")) = Cur.len - 1
        /\ buffers[k] = [j \in 1..Cur.len |-> Commands[2 * j].arg]
        /\ trace[Len(trace)].op = "set_ackact"

C5_Witness ==
    /\ ByteWise("read") /\ Returned
    /\ result = "Ok"
    /\ buffers[k] = <<0, 1>>

\* C6: a byte-wise write stops at the first error.  A rejected start or a
\* failed bus error check is the last entry of the trace, the write has
\* returned that error, and there is no STOP: nothing was written, waited
\* for or commanded after the error.
C6_WriteStopsAtError ==
    ByteWise("write") =>
        /\ \A j \in FailedAt :
            /\ j = Len(trace)
            /\ Returned
            /\ result = (IF trace[j].op = "start_write" THEN "Busy"
                         ELSE "BusError")
        /\ (Returned /\ result # "Ok") =>
            /\ FailedAt = {Len(trace)}
            /\ At("cmd_stop") = {}

\* The error came after a byte had been written.
C6_Witness ==
    /\ ByteWise("write") /\ Returned
    /\ result = "BusError"
    /\ At("write_one") # {}

\* ------------------------------------------- sub-operations in the trace
\* The entries a write and a read leave in the trace, in either engine.
EventOfKind(e, kind) ==
    IF kind = "Write"
    THEN \/ e.op \in {"start_write", "check_bus_error", "write_one", "cmd_stop",
                      "init_dma_transfer", "start_dma_write", "write_dma"}
         \/ e.op = "wait_flags" /\ e.flags = {MB, ERROR}
    ELSE \/ e.op \in {"start_read", "read_one", "cmd_read", "set_ackact",
                      "init_dma_transfer", "start_dma_read", "read_dma"}
         \/ e.op = "wait_flags" /\ e.flags = {SB, ERROR}

\* The error a failed call makes its caller return.
ErrorOf(e) ==
    IF e.op = "check_bus_error" THEN "BusError"
    ELSE IF e.op \in {"write_dma", "read_dma"} THEN "Dma"
    ELSE "Busy"

\* The positions of the trace that belong to sub-operation n.
Segment(n) == {j \in 1..Len(trace) : trace[j].k = n}

\* Sub-operation n ran to its end and returned Ok: its last entry is the
\* STOP of a write, the NACK arrangement of a read, or a DMA transfer that
\* completed.
Completed(n) ==
    /\ Segment(n) # {}
    /\ LET last == trace[CHOOSE j \in Segment(n) : \A m \in Segment(n) : m <= j]
       IN /\ last.op \in (IF call.ops[n].kind = "Write"
                          THEN {"cmd_stop", "write_dma"}
                          ELSE {"set_ackact", "read_dma"})
          /\ last.arg # Failed

\* Every entry belongs to a sub-operation of the list and is of its kind;
\* the sub-operations appear in list order, one after the other; a failed
\* call is the last entry, and the caller has returned its error.
InListOrder ==
    /\ \A j \in 1..Len(trace) :
        /\ trace[j].k \in 1..Len(call.ops)
        /\ EventOfKind(trace[j], call.ops[trace[j].k].kind)
        /\ \A m \in 1..Len(trace) : j < m => trace[j].k <= trace[m].k
    /\ \A n \in 1..Len(call.ops) :
        Segment(n) # {} => \A m \in 1..(n - 1) : Completed(m)
    /\ \A j \in FailedAt :
        /\ j = Len(trace)
        /\ Returned
        /\ result = ErrorOf(trace[j])

SameSlave ==
    \A j \in 1..Len(trace) :
        trace[j].op \in {"start_write", "start_read", "start_dma_write",
                         "start_dma_read"} => trace[j].addr = call.addr

\* C7: write_read, byte-wise and with DMA, performs every operation of its
\* write phase before any operation of its read phase, both phases started
\* with the address it was given; an error of the write phase is returned
\* and no operation of the read phase is ever issued.
C7_WriteBeforeRead ==
    call.api = "write_read" =>
        /\ Len(call.ops) = 2
        /\ call.ops[1].kind = "Write"
        /\ call.ops[2].kind = "Read"
        /\ InListOrder
        /\ SameSlave
        /\ (Returned /\ result = "Ok") => Completed(1) /\ Completed(2)

\* Both phases ran, byte-wise, two bytes each way.
C7_Witness ==
    /\ ByteWise("write_read") /\ Returned
    /\ result = "Ok"
    /\ call.ops[1].bytes = <<0, 1>>
    /\ buffers[2] = <<1, 0>>

\* C8: transaction runs its sub-operations in list order, each to its end
\* before the next begins, and stops at the first error: it returns that
\* error, no operation of a later sub-operation is performed, and it
\* returns Ok only if every sub-operation ran to its end.
C8_TransactionInOrder ==
    call.api = "transaction" =>
        /\ InListOrder
        /\ SameSlave
        /\ (Returned /\ result = "Ok") =>
            \A n \in 1..Len(call.ops) : Completed(n)
        /\ (Returned /\ result # "Ok") =>
            /\ FailedAt = {Len(trace)}
            /\ \A n \in (k + 1)..Len(call.ops) : Segment(n) = {}

\* The first of two sub-operations failed after its start.
C8_Witness ==
    /\ call.api = "transaction" /\ Returned
    /\ Len(call.ops) = 2
    /\ k = 1
    /\ result = "BusError"

\* C9: DMA write and DMA read accept exactly the lengths 1..255.  A start
\* command is only ever given the length itself as its byte count; a length
\* in the range, with no failure of the hardware or the DMA engine, ends in
\* Ok; a length outside it ends in the failed assertion, with no start
\* command and no DMA transfer.
C9_DmaLengthRange ==
    (session = "FutureDma" /\ call.api \in {"write", "read"}) =>
        LET starts == At("start_dma_write") \cup At("start_dma_read")
            xfers == At("write_dma") \cup At("read_dma")
            asserted == pc \notin {"dw_init", "dr_init", "dw_start", "dr_start"}
        IN /\ \A j \in starts : trace[j].arg = Cur.len
           /\ Cur.len \in 1..DmaMaxLen =>
                /\ pc # "panicked"
                /\ (Returned /\ FailedAt = {}) =>
                     result = "Ok" /\ starts # {} /\ xfers # {}
           /\ Cur.len \notin 1..DmaMaxLen =>
                /\ starts = {}
                /\ xfers = {}
                /\ result # "Ok"
                /\ (asserted /\ FailedAt = {}) => pc = "panicked"

C9_Witness ==
    /\ session = "FutureDma" /\ call.api = "write" /\ Returned
    /\ Cur.len = DmaMaxLen
    /\ result = "Ok"

\* C10: into_future clears the pending request before it enables the line
\* and yields a session without DMA; nothing masks the line afterwards, and
\* free and with_dma_channel leave the controller and the peripheral's
\* interrupt enable bits as they are: once into_future has run the line is
\* enabled in every state, also after free.
C10_LineStaysEnabled ==
    /\ [](session = "Entering" => nvicLog = <<"unpend">>)
    /\ [](session \in {"Future", "FutureDma"} =>
            nvicLog = <<"unpend", "enable">>)
    /\ []("enable" \in {nvicLog[j] : j \in 1..Len(nvicLog)} => nvicEnabled)
    /\ [][nvicEnabled => nvicEnabled']_vars
    /\ [][(session = "Entering" /\ session' # "Entering") =>
            session' = "Future"]_vars
    /\ [][(session = "Future" /\ session' # "Future") =>
            UNCHANGED <<nvicEnabled, nvicPending, intenset>>]_vars

\* The handle was given back by free: the line is still enabled.
C10_Witness ==
    /\ session = "I2c"
    /\ nvicLog = <<"unpend", "enable">>
    /\ nvicEnabled

\* ------------------------------------------- the handler and wait_flags
\* The task is suspended inside wait_flags: its poll returned Poll::Pending.
Suspended == pc = "wf_pending"

\* A step of the handler that wakes the task: only WakerWake sets `woken`.
WakesTask == ~woken /\ woken'

\* C11 (as the specification states it): when the handler runs while the
\* task is suspended with a non-empty interest set enabled and wakes it, no
\* recognized interrupt enable bit of the instance is left set.
C11_NoEnableBitLeftOnWake ==
    [][(Suspended /\ intenset # {} /\ WakesTask) =>
            intenset' \cap FlagsAll = {}]_vars

\* C11 (amended): when the handler runs while the task is suspended and
\* wakes it, the enable bit of every flag that was pending when the handler
\* ran is clear, and the enable bits of the flags that were not pending are
\* as they were.
C11_PendingBitsClearedOnWake ==
    [][(Suspended /\ WakesTask) =>
            /\ intenset' \cap FromBitsTruncate(intflag) = {}
            /\ intenset' \ FromBitsTruncate(intflag) =
                    intenset \ FromBitsTruncate(intflag)]_vars

\* The task waited for MB | ERROR, MB alone was latched and the handler
\* woke the task: the ERROR source is still enabled.
C11_Witness ==
    /\ Suspended
    /\ woken /\ ~waker
    /\ flags_to_wait = {MB, ERROR}
    /\ intflag = {MB}
    /\ intenset = {ERROR}

\* C12 (as the specification states it): a handler run while no recognized
\* flag is pending changes no interrupt enable bit and no status flag and
\* does not wake: a registered waker stays registered, the task is not
\* resumed.
C12_SpuriousRunIsNoOp ==
    [][(Handler /\ FromBitsTruncate(intflag) = {}) =>
            UNCHANGED <<intenset, intflag, status, waker, woken>>]_vars

\* A second run of the handler right here would change nothing.
HandlerIsNoOpHere == ~ENABLED <<Handler>>_vars

\* C13: running the handler twice in a row leaves the state the first run
\* left (enable bits, status flags, empty waker slot, one wake); a run that
\* finds the slot empty adds no wake; and in the wait_flags cycles that
\* follow, a parked task that has not been woken still has its waker
\* registered, and is resumed once one of its flags is latched.
C13_DoubleFireIdempotent ==
    /\ [][Handler => HandlerIsNoOpHere']_vars
    /\ [][(Handler /\ ~waker) => UNCHANGED woken]_vars
    /\ [](Suspended /\ ~woken => waker)
    /\ (Suspended /\ waker /\ Intersects(flags_to_wait, intflag)) ~> ~Suspended

\* The handler has run for SB while the task waited for SB | ERROR: the
\* line is enabled, so the handler can fire again on the same event.
C13_Witness ==
    /\ Suspended
    /\ nvicEnabled /\ ~nvicPending
    /\ flags_to_wait = {SB, ERROR}
    /\ intflag = {SB}
    /\ intenset = {ERROR}
    /\ woken /\ ~waker
    /\ ENABLED OnInterruptSpurious

\* C14: a poll of wait_flags that finds an awaited flag already pending
\* returns to the caller at once, registers no waker and changes no
\* interrupt enable bit.
C14_FastPath ==
    [][(pc = "wf_poll" /\ Intersects(flags_to_wait, ReadFlags) /\ pc' # pc) =>
            /\ pc' = ret
            /\ UNCHANGED <<waker, woken, intenset, intflag>>]_vars

\* write has come back from wait_flags with no waker ever registered and no
\* source enabled: the wait took the fast path.
C14_Witness ==
    /\ pc = "w_check"
    /\ Intersects(flags_to_wait, intflag)
    /\ ~waker /\ ~woken
    /\ intenset = {}

\* C15: while the task is suspended in wait_flags(interest) no source
\* outside the interest set is enabled; the register step leaves the task's
\* waker in the slot and the enable step leaves exactly the interest set
\* enabled; from then on only the handler changes the enabled set or takes
\* the waker, so until it runs the enabled set is the interest set and the
\* slot holds the one waker.
C15_ExactlyInterestEnabled ==
    /\ [](Suspended => intenset \subseteq flags_to_wait)
    /\ [][(pc = "wf_register" /\ pc' # pc) => waker']_vars
    /\ [][(pc = "wf_enable" /\ pc' # pc) => intenset' = flags_to_wait]_vars
    /\ [][(pc \in {"wf_recheck", "wf_pending"}
                /\ (intenset' # intenset \/ (waker /\ ~waker'))) => Handler]_vars
    /\ [](Suspended /\ waker /\ ~woken => intenset = flags_to_wait)

\* Suspended in a read with the waker registered, nothing latched yet and
\* exactly SB and ERROR enabled.
C15_Witness ==
    /\ Suspended
    /\ flags_to_wait = {SB, ERROR}
    /\ intflag = {}
    /\ intenset = {SB, ERROR}
    /\ waker /\ ~woken

\* C16: a handler run that finds the non-empty set P of recognized flags
\* pending clears the enable bits of exactly the flags of P, leaves the
\* other enable bits and every status flag as they were, and wakes through
\* the waker slot: the slot is emptied and the task is woken if a waker was
\* registered.
C16_HandlerMasksExactlyPending ==
    [][(Handler /\ FromBitsTruncate(intflag) # {}) =>
            /\ intenset' = intenset \ FromBitsTruncate(intflag)
            /\ intflag' = intflag
            /\ status' = status
            /\ ~waker'
            /\ woken' = (woken \/ waker)]_vars

\* The handler has run with ERROR alone pending while the task waited for
\* MB | ERROR: MB is still enabled, ERROR is still latched, the task is woken.
C16_Witness ==
    /\ Suspended
    /\ flags_to_wait = {MB, ERROR}
    /\ intflag = {ERROR}
    /\ status # {}
    /\ intenset = {MB}
    /\ woken /\ ~waker

\* The statements of the slow path between the disabling of the sources
\* and their enabling.
SourcesOff == {"wf_register", "wf_enable"}

\* C17: the slow path of wait_flags runs disable, register, enable,
\* re-check in this order; no recognized source is enabled when the waker
\* is registered, and between the disable step and the enable step the
\* instance asserts no interrupt request.
C17_SlowPathOrder ==
    /\ [][(pc = "wf_poll" /\ pc' # pc /\ pc' # ret) => pc' = "wf_disable"]_vars
    /\ [][(pc = "wf_disable" /\ pc' # pc) =>
            pc' = "wf_register" /\ intenset' \cap FlagsAll = {}]_vars
    /\ [][(pc = "wf_register" /\ pc' # pc) =>
            pc' = "wf_enable" /\ waker' /\ intenset \cap FlagsAll = {}]_vars
    /\ [][(pc = "wf_enable" /\ pc' # pc) =>
            pc' = "wf_recheck" /\ flags_to_wait \subseteq intenset']_vars
    /\ [][(pc = "wf_recheck" /\ pc' # pc) => pc' \in {"wf_pending", ret}]_vars
    /\ [](pc \in SourcesOff => intenset \cap FlagsAll = {} /\ ~IrqAsserted)

\* About to enable the sources with the waker registered, while a flag the
\* task waits for is already latched: no request is asserted.
C17_Witness ==
    /\ pc = "wf_enable"
    /\ waker
    /\ intenset = {}
    /\ Intersects(flags_to_wait, intflag)
    /\ ~IrqAsserted

\* C18: a task parked in wait_flags(interest) has been woken or has its
\* waker registered; and while its waker is registered every interest flag
\* has its source enabled, pending or not, so no interest flag is pending
\* with its source masked and no wake deliverable.
C18_NoLostWakeup ==
    /\ Suspended /\ ~woken => waker
    /\ Suspended /\ waker =>
            \A f \in flags_to_wait :
                /\ f \notin intflag => f \in intenset
                /\ ~(f \in intflag /\ f \notin intenset)

\* Parked with the waker registered while MB is latched and enabled: the
\* request is asserted on an enabled line, the wake is deliverable.
C18_Witness ==
    /\ Suspended
    /\ waker /\ ~woken
    /\ flags_to_wait = {MB, ERROR}
    /\ intflag = {MB}
    /\ intenset = {MB, ERROR}
    /\ nvicEnabled

\* C19: wait_flags returns only with an interest flag pending, by the fast
\* path, by the second read or after a wake; a parked task is polled again
\* only after a wake, and a poll that finds no interest flag pending goes
\* through disable, register, enable again instead of returning.
C19_ReturnsWithFlagPending ==
    /\ [][(InWaitFlags /\ ~InWaitFlags') =>
            /\ pc' = ret
            /\ Intersects(flags_to_wait, FromBitsTruncate(intflag'))]_vars
    /\ [][(Suspended /\ pc' # pc) => woken /\ ~woken' /\ pc' = "wf_poll"]_vars
    /\ [][(pc = "wf_poll" /\ ~Intersects(flags_to_wait, ReadFlags) /\ pc' # pc)
            => pc' = WaitFlagsOrder[1]]_vars

\* write is back from wait_flags with MB pending, after the handler has
\* masked MB and woken the task: the waker was taken, the wake consumed,
\* ERROR is still enabled.
C19_Witness ==
    /\ pc = "w_check"
    /\ flags_to_wait = {MB, ERROR}
    /\ intflag = {MB}
    /\ intenset = {ERROR}
    /\ ~waker /\ ~woken

\* C20: after every run of the handler no enabled source has its flag
\* pending, so the instance asserts no request; the request is asserted
\* again only by the enable step of wait_flags or by the hardware latching
\* a flag whose source is enabled.
C20_NoInterruptStorm ==
    /\ [][Handler => ~IrqAsserted']_vars
    /\ [](HandlerIsNoOpHere => ~IrqAsserted)
    /\ [][(~IrqAsserted /\ IrqAsserted') =>
            \/ pc = "wf_enable" /\ pc' # pc
            \/ Intersects(intflag' \ intflag, intenset)]_vars

\* The handler has run with MB and ERROR both pending: both sources are
\* masked, both flags still latched, the line is enabled and idle.
C20_Witness ==
    /\ Suspended
    /\ nvicEnabled /\ ~nvicPending
    /\ intflag = {MB, ERROR}
    /\ intenset = {}
    /\ woken /\ ~waker

====
